---- MODULE Spec2Model ----
(***************************************************************************)
(* Model of src/wts/youtube/videos.py: the pipeline                        *)
(*   channel URL -> channel id -> uploads playlist id -> video id list.    *)
(* The external tool (yt-dlp) and the YouTube Data API are the             *)
(* environment: every call draws its outcome from a small set.             *)
(***************************************************************************)
EXTENDS Integers, Sequences, FiniteSets, TLC

\* ------------------------------------------------------------------ bounds
\* playlistItems requests one run may issue before the model stops it
MaxRequests == 4
\* entries of `items` in one playlistItems page
MaxItems == 2

\* ------------------------------------------------------- program constants
CHANNEL_ID_FETCH_TIMEOUT == 15
YOUTUBE_API_TIMEOUT == 5
MAX_RESULTS_PER_PAGE == 50
\* os.getenv("API_KEY"): an opaque string
api_key == "KEY"
\* the URL main() passes
channel_url == "https://www.youtube.com/@ryanthreethousand"

\* --------------------------------------------------- decoded JSON / Python
\* A decoded JSON value is a tagged record; None is JSON null.
JNull == [t |-> "null"]
JStr(s) == [t |-> "str", s |-> s]
JList(a) == [t |-> "list", a |-> a]
JDict(m) == [t |-> "dict", m |-> m]
JNum(n) == [t |-> "num", n |-> n]
EmptyDict == JDict(<<>>)
None == JNull

\* Result of evaluating an expression: a value, or a raised exception kind.
Ok(v) == [ok |-> TRUE, val |-> v]
Raise(k) == [ok |-> FALSE, exc |-> k]

\* v[k] for a string key k
GetKey(v, k) ==
    IF v.t = "dict"
    THEN IF k \in DOMAIN v.m THEN Ok(v.m[k]) ELSE Raise("KeyError")
    ELSE Raise("TypeError")

\* v[i] for an integer index i >= 0
GetIndex(v, i) ==
    CASE v.t = "dict" -> Raise("KeyError")
      [] v.t = "list" -> IF i < Len(v.a) THEN Ok(v.a[i + 1]) ELSE Raise("IndexError")
      [] v.t = "str"  -> IF i < Len(v.s) THEN Ok(JStr(SubSeq(v.s, i + 1, i + 1)))
                                         ELSE Raise("IndexError")
      [] OTHER        -> Raise("TypeError")

\* r[k] / r[i] where r is itself the result of a subscript
SubKey(r, k) == IF r.ok THEN GetKey(r.val, k) ELSE r
SubIndex(r, i) == IF r.ok THEN GetIndex(r.val, i) ELSE r

\* bool(v)
Truthy(v) ==
    CASE v.t = "null" -> FALSE
      [] v.t = "str"  -> v.s # ""
      [] v.t = "list" -> v.a # <<>>
      [] v.t = "dict" -> DOMAIN v.m # {}
      [] OTHER        -> TRUE

\* the keys of a dict, as the sequence iteration visits
KeySeq(m) ==
    CHOOSE q \in [1..Cardinality(DOMAIN m) -> DOMAIN m] :
        \A k \in DOMAIN m : \E i \in DOMAIN q : q[i] = k

\* the elements `for x in v` visits, or the TypeError of a non-iterable
Iterate(v) ==
    CASE v.t = "list" -> Ok(v.a)
      [] v.t = "str"  -> Ok([i \in 1..Len(v.s) |-> JStr(SubSeq(v.s, i, i))])
      [] v.t = "dict" -> Ok([i \in 1..Cardinality(DOMAIN v.m) |-> JStr(KeySeq(v.m)[i])])
      [] OTHER        -> Raise("TypeError")

\* ------------------------------------------------------------- exceptions
\* The message of an exception is the sequence of the parts its f-string
\* joins: literal text and interpolated values, each as a value.
Exc(kind, msg) == [kind |-> kind, msg |-> msg]
NoExc == Exc("none", <<>>)
\* an exception Python itself raises while subscripting
Builtin(kind) == Exc(kind, <<>>)

\* str.strip(): drop leading and trailing whitespace
IsSpace(c) == c \in {" ", "\t", "\n", "\r"}

RECURSIVE lstrip(_)
lstrip(s) == IF Len(s) > 0 /\ IsSpace(SubSeq(s, 1, 1))
             THEN lstrip(SubSeq(s, 2, Len(s))) ELSE s

RECURSIVE rstrip(_)
rstrip(s) == IF Len(s) > 0 /\ IsSpace(SubSeq(s, Len(s), Len(s)))
             THEN rstrip(SubSeq(s, 1, Len(s) - 1)) ELSE s

strip(s) == rstrip(lstrip(s))

\* ----------------------------------------------------------- get_channel_id
\* What subprocess.run can do: exit with a status, or exceed the timeout.
ToolOutcomes ==
    { [o |-> "exit", code |-> 0, stdout |-> " UC1\n", stderr |-> ""],
      [o |-> "exit", code |-> 0, stdout |-> "", stderr |-> ""],
      [o |-> "exit", code |-> 1, stdout |-> "", stderr |-> "ERROR: not found"],
      [o |-> "exit", code |-> 1, stdout |-> "", stderr |-> ""],
      [o |-> "timeout", code |-> 0, stdout |-> "", stderr |-> ""] }

\* mutant: the raw standard output is returned, not stripped
get_channel_id_raw(url, tool) ==
    CASE tool.o = "timeout" ->
           Raise(Exc("ChannelFetchError",
                     <<JStr("Timed out while fetching channel ID for the URL: "), JStr(url)>>))
      [] tool.o = "exit" /\ tool.code # 0 ->
           Raise(Exc("ChannelFetchError",
                     <<JStr("Failed to fetch channel ID for the URL: "), JStr(url),
                       JStr(".\nCheck below for the error.\n"), JStr(tool.stderr)>>))
      [] OTHER -> Ok(tool.stdout)

\* lines 23-59
get_channel_id(url, tool) ==
    CASE tool.o = "timeout" ->
           Raise(Exc("ChannelFetchError",
                     <<JStr("Timed out while fetching channel ID for the URL: "), JStr(url)>>))
      [] tool.o = "exit" /\ tool.code # 0 ->
           LET err == IF tool.stderr # "" THEN tool.stderr ELSE "unknown error"
           IN Raise(Exc("ChannelFetchError",
                        <<JStr("Failed to fetch channel ID for the URL: "), JStr(url),
                          JStr(".\nCheck below for the error.\n"), JStr(err)>>))
      [] OTHER -> Ok(strip(tool.stdout))

\* -------------------------------------------------------------- yt_api_req
\* What requests.get can do: fail to connect, time out while connecting
\* (ConnectTimeout is both a ConnectionError and a Timeout), time out while
\* reading (ReadTimeout is a Timeout), or deliver a response.
NetFailures ==
    { [o |-> "ConnectionError", detail |-> "Name or service not known"],
      [o |-> "ConnectTimeout", detail |-> "connect timed out"],
      [o |-> "ReadTimeout", detail |-> "read timed out"] }

Response(status, parses, text, doc) ==
    [o |-> "response", status |-> status, parses |-> parses, text |-> text, doc |-> doc]

JsonResponse(doc) == Response(200, TRUE, "", doc)

BadResponses ==
    { Response(404, TRUE, "", EmptyDict),
      Response(500, FALSE, "Internal Server Error", JNull),
      Response(200, FALSE, "<html>", JNull) }

\* isinstance(e, cls) for the exception requests.get raised
IsConnectionError(net) == net.o \in {"ConnectionError", "ConnectTimeout"}
IsTimeout(net) == net.o \in {"ConnectTimeout", "ReadTimeout"}
\* response.raise_for_status() raises HTTPError
IsHTTPError(net) == net.o = "response" /\ net.status >= 400 /\ net.status < 600

yt_api_req(type, params, net) ==
    CASE IsConnectionError(net) ->
           Raise(Exc("YouTubeAPIError",
                     <<JStr("Failed to connect to the API. Check details below:\n"),
                       JStr(net.detail)>>))
      [] ~IsConnectionError(net) /\ IsHTTPError(net) ->
           Raise(Exc("YouTubeAPIError",
                     <<JStr("received bad response code from YouTubeAPI:"), JNum(net.status)>>))
      [] ~IsConnectionError(net) /\ ~IsHTTPError(net) /\ IsTimeout(net) ->
           Raise(Exc("YouTubeAPIError", <<JStr("YouTubeAPI took too long to respond")>>))
      [] OTHER ->
           IF net.parses THEN Ok(net.doc)
           ELSE Raise(Exc("YouTubeAPIError", <<JStr("Invalid data received:\n "), JStr(net.text)>>))

\* -------------------------------------------------- get_upload_playlist_id
PlaylistsParams(channel_id) ==
    [part |-> "contentDetails", maxResults |-> MAX_RESULTS_PER_PAGE,
     id |-> channel_id, key |-> api_key]

UploadsItem(pl) ==
    JDict([contentDetails |-> JDict([relatedPlaylists |-> JDict([uploads |-> JStr(pl)])])])

\* Decoded bodies the "playlists" endpoint may deliver: the expected one, and
\* parseable documents of another shape.
PlaylistsDocs ==
    { JDict([items |-> JList(<<UploadsItem("UU1"), UploadsItem("UU2")>>)]),
      JDict([items |-> JList(<<>>)]),
      EmptyDict,
      JDict([items |-> JList(<<EmptyDict>>)]),
      JDict([items |-> JList(<<JDict([contentDetails |-> EmptyDict])>>)]),
      JDict([items |-> JList(<<JDict([contentDetails |->
                                        JDict([relatedPlaylists |-> EmptyDict])])>>)]),
      JDict([items |-> JNull]),
      JList(<<>>) }

\* mutant: the last entry of items is read (items[-1]), not the first
UploadsOfLast(data) ==
    LET its == GetKey(data, "items")
    IN IF its.ok /\ its.val.t = "list" /\ its.val.a # <<>>
       THEN SubKey(SubKey(SubKey(Ok(its.val.a[Len(its.val.a)]),
                                 "contentDetails"), "relatedPlaylists"), "uploads")
       ELSE SubKey(SubKey(SubKey(SubIndex(its, 0),
                                 "contentDetails"), "relatedPlaylists"), "uploads")

\* data["items"][0]["contentDetails"]["relatedPlaylists"]["uploads"]
UploadsOf(data) ==
    SubKey(SubKey(SubKey(SubIndex(GetKey(data, "items"), 0),
                         "contentDetails"), "relatedPlaylists"), "uploads")

\* mutant: a missing key yields None (dict.get) instead of raising
get_upload_playlist_id_get(channel_id, net) ==
    LET r == yt_api_req("playlists", PlaylistsParams(channel_id), net)
    IN IF ~r.ok THEN r
       ELSE LET e == UploadsOf(r.val)
            IN IF e.ok THEN e
               ELSE IF e.exc = "KeyError" THEN Ok(None)
               ELSE IF e.exc = "TypeError"
                    THEN Raise(Exc("YouTubeAPIError", <<JStr("Invalid data received:\n "), r.val>>))
                    ELSE Raise(Builtin(e.exc))

\* lines 89-107
get_upload_playlist_id(channel_id, net) ==
    LET r == yt_api_req("playlists", PlaylistsParams(channel_id), net)
    IN IF ~r.ok THEN r
       ELSE LET e == UploadsOf(r.val)
            IN IF e.ok THEN e
               ELSE IF e.exc \in {"KeyError", "TypeError"}
                    THEN Raise(Exc("YouTubeAPIError", <<JStr("Invalid data received:\n "), r.val>>))
                    ELSE Raise(Builtin(e.exc))

\* ----------------------------------------------------------- get_video_ids
VideoIdSeq == <<"v1", "v2">>
VideoIds == {VideoIdSeq[i] : i \in 1..Len(VideoIdSeq)}
GoodItem(v) == JDict([contentDetails |-> JDict([videoId |-> JStr(v)])])
BadItem == JDict([contentDetails |-> EmptyDict])
ItemKinds == {GoodItem(v) : v \in VideoIds} \cup {BadItem}
ItemLists == UNION {[1..n -> ItemKinds] : n \in 0..MaxItems}
\* the API fills every page but the last: MaxItems entries, the videos in
\* playlist order starting at any one of them
FullLists ==
    {[i \in 1..MaxItems |-> GoodItem(VideoIdSeq[((i + off) % Len(VideoIdSeq)) + 1])] :
        off \in 1..Len(VideoIdSeq)}

\* values the API may put in nextPageToken
TokenValues == {JStr("A"), JStr("B"), JStr(""), JNull}

\* Decoded bodies the "playlistItems" endpoint may deliver: a last page (no
\* nextPageToken) of any length, a full page with a nextPageToken, a page
\* with a nextPageToken and a malformed entry, and documents of another shape.
PageDocs ==
    {JDict([items |-> JList(l)]) : l \in ItemLists}
    \cup {JDict([items |-> JList(l), nextPageToken |-> tk]) : l \in FullLists, tk \in TokenValues}
    \cup {JDict([items |-> JList(<<GoodItem(v), BadItem>>), nextPageToken |-> JStr("A")]) :
              v \in VideoIds}
    \cup { EmptyDict,
           JDict([items |-> JNull]),
           JDict([items |-> JList(<<JStr("x")>>)]),
           JList(<<>>) }

\* line 130: `if next_page_token:`
SendsToken(tok) == Truthy(tok)

\* mutant: the loop breaks on an empty token only (`if next_page_token == ""`)
LoopDoneEmpty(tok) == tok = JStr("")

\* mutant: the loop breaks on any falsy token (`if not next_page_token`)
LoopDoneFalsy(tok) == ~Truthy(tok)

\* line 143: `if next_page_token is None: break`
LoopDone(tok) == tok = None

\* mutant: line 132 left out, so a page without nextPageToken keeps the old token
NextTokenStale(data, tok) ==
    IF "nextPageToken" \in DOMAIN data.m THEN data.m.nextPageToken ELSE tok

\* lines 132, 137-138: the token after a page has been read
NextToken(data, tok) ==
    IF "nextPageToken" \in DOMAIN data.m THEN data.m.nextPageToken ELSE None

PageParams(pl, tok) ==
    LET params == [part |-> "contentDetails", maxResults |-> MAX_RESULTS_PER_PAGE,
                   playlistId |-> pl, key |-> api_key]
    IN IF SendsToken(tok) THEN params @@ [pageToken |-> tok] ELSE params

\* mutant: each identifier is put in front of the accumulator
RECURSIVE AppendIdsFront(_, _)
AppendIdsFront(items, acc) ==
    IF items = <<>> THEN [ok |-> TRUE, ids |-> acc, exc |-> "none"]
    ELSE LET e == SubKey(GetKey(Head(items), "contentDetails"), "videoId")
         IN IF e.ok THEN AppendIdsFront(Tail(items), <<e.val>> \o acc)
            ELSE [ok |-> FALSE, ids |-> acc, exc |-> e.exc]

\* mutant: an entry without contentDetails.videoId is skipped
RECURSIVE AppendIdsSkip(_, _)
AppendIdsSkip(items, acc) ==
    IF items = <<>> THEN [ok |-> TRUE, ids |-> acc, exc |-> "none"]
    ELSE LET e == SubKey(GetKey(Head(items), "contentDetails"), "videoId")
         IN IF e.ok THEN AppendIdsSkip(Tail(items), Append(acc, e.val))
            ELSE AppendIdsSkip(Tail(items), acc)

\* mutant: an identifier already in the accumulator is not appended again
RECURSIVE AppendIdsDedup(_, _)
AppendIdsDedup(items, acc) ==
    IF items = <<>> THEN [ok |-> TRUE, ids |-> acc, exc |-> "none"]
    ELSE LET e == SubKey(GetKey(Head(items), "contentDetails"), "videoId")
         IN IF e.ok
            THEN AppendIdsDedup(Tail(items),
                                IF \E i \in 1..Len(acc) : acc[i] = e.val THEN acc
                                ELSE Append(acc, e.val))
            ELSE [ok |-> FALSE, ids |-> acc, exc |-> e.exc]

\* lines 135-136:
\* for playlist_item in items: video_ids.append(playlist_item["contentDetails"]["videoId"])
RECURSIVE AppendIds(_, _)
AppendIds(items, acc) ==
    IF items = <<>> THEN [ok |-> TRUE, ids |-> acc, exc |-> "none"]
    ELSE LET e == SubKey(GetKey(Head(items), "contentDetails"), "videoId")
         IN IF e.ok THEN AppendIds(Tail(items), Append(acc, e.val))
            ELSE [ok |-> FALSE, ids |-> acc, exc |-> e.exc]

\* One pass through the body of `while True` (lines 123-144), given the
\* outcome of its request: the new accumulator and token, and the exception
\* that leaves the loop, if any.
LoopBody(pl, ids, tok, net) ==
    LET r == yt_api_req("playlistItems", PageParams(pl, tok), net)
    IN IF ~r.ok THEN [ids |-> ids, tok |-> None, exc |-> r.exc]
       ELSE LET data == r.val
                invalid == Exc("YouTubeAPIError", <<JStr("Invalid data received:\n "), data>>)
                its == SubKey(Ok(data), "items")
                seq == IF its.ok THEN Iterate(its.val) ELSE its
            IN IF ~seq.ok
               THEN [ids |-> ids, tok |-> None,
                     exc |-> IF seq.exc \in {"KeyError", "TypeError"} THEN invalid
                             ELSE Builtin(seq.exc)]
               ELSE LET a == AppendIds(seq.val, ids)
                    IN IF ~a.ok
                       THEN [ids |-> a.ids, tok |-> None,
                             exc |-> IF a.exc \in {"KeyError", "TypeError"} THEN invalid
                                     ELSE Builtin(a.exc)]
                       ELSE [ids |-> a.ids, tok |-> NextToken(data, tok), exc |-> NoExc]

\* mutant: the accumulator is a list that outlives the call
SharedList(old) == old

\* line 116: `video_ids = []`; `old` is what an earlier call left behind
NewList(old) == <<>>

\* ------------------------------------------------------------------ state
VARIABLES
    pc,               \* where the run of get_video_ids stands
    id,               \* the channel id (line 114)
    playlist_id,      \* line 115
    video_ids,        \* the accumulator (line 116)
    next_page_token,  \* line 117
    ret,              \* the list returned to the caller
    exc,              \* the exception that reached the caller
    spawns,           \* external processes started, in order
    requests,         \* API requests issued, in order: [type, params]
    responses,        \* what each request met, in order
    again,            \* a second call of get_video_ids, made after the first ended
    main              \* main(): its position, vid_list and the provider calls made

vars == <<pc, id, playlist_id, video_ids, next_page_token, ret, exc,
          spawns, requests, responses, again, main>>

\* main.py line 6, before get_video_ids has come back
MainStarted == [pc |-> "get_video_ids", vid_list |-> <<>>, fetches |-> <<>>, done |-> FALSE, exc |-> NoExc]

\* the locals and the result of a call that has not started
NotCalled ==
    [pc |-> "get_channel_id", id |-> "", playlist_id |-> None, video_ids |-> <<>>,
     next_page_token |-> None, ret |-> <<>>, exc |-> NoExc, asked |-> 0]

Init ==
    /\ pc = "get_channel_id"
    /\ id = ""
    /\ playlist_id = None
    /\ video_ids = <<>>
    /\ next_page_token = None
    /\ ret = <<>>
    /\ exc = NoExc
    /\ spawns = <<>>
    /\ requests = <<>>
    /\ responses = <<>>
    /\ again = NotCalled
    /\ main = MainStarted

NetOutcomes(docs) == NetFailures \cup BadResponses \cup {JsonResponse(d) : d \in docs}

PageRequests == SelectSeq(requests, LAMBDA q : q.type = "playlistItems")

\* mutant: a failed resolution is recorded but the run goes on
GetChannelIdGoesOn ==
    /\ pc = "get_channel_id"
    /\ \E tool \in ToolOutcomes :
         LET r == get_channel_id(channel_url, tool)
         IN /\ spawns' = Append(spawns, [cmd |-> "yt-dlp", url |-> channel_url, outcome |-> tool])
            /\ id' = IF r.ok THEN r.val ELSE id
            /\ exc' = IF r.ok THEN exc ELSE r.exc
            /\ pc' = "get_upload_playlist_id"
    /\ UNCHANGED <<playlist_id, video_ids, next_page_token, ret, requests, responses, again, main>>

\* line 114
GetChannelId ==
    /\ pc = "get_channel_id"
    /\ \E tool \in ToolOutcomes :
         LET r == get_channel_id(channel_url, tool)
         IN /\ spawns' = Append(spawns, [cmd |-> "yt-dlp", url |-> channel_url, outcome |-> tool])
            /\ IF r.ok
               THEN /\ id' = r.val
                    /\ pc' = "get_upload_playlist_id"
                    /\ exc' = exc
               ELSE /\ exc' = r.exc
                    /\ pc' = "raised"
                    /\ id' = id
    /\ UNCHANGED <<playlist_id, video_ids, next_page_token, ret, requests, responses, again, main>>

\* lines 115-117
GetUploadPlaylistId ==
    /\ pc = "get_upload_playlist_id"
    /\ \E net \in NetOutcomes(PlaylistsDocs) :
         LET r == get_upload_playlist_id(id, net)
         IN /\ requests' = Append(requests, [type |-> "playlists", params |-> PlaylistsParams(id)])
            /\ responses' = Append(responses, net)
            /\ IF r.ok
               THEN /\ playlist_id' = r.val
                    /\ pc' = "loop"
                    /\ exc' = exc
               ELSE /\ exc' = r.exc
                    /\ pc' = "raised"
                    /\ playlist_id' = playlist_id
    /\ video_ids' = NewList(video_ids)
    /\ next_page_token' = None
    /\ UNCHANGED <<id, ret, spawns, again, main>>

\* mutant: a request that fails at the gateway is issued again
LoopIterationRetry ==
    /\ pc = "loop"
    /\ Len(PageRequests) < MaxRequests
    /\ \E net \in NetOutcomes(PageDocs) :
         LET b == LoopBody(playlist_id, video_ids, next_page_token, net)
             retry == ~yt_api_req("playlistItems", <<>>, net).ok
                      /\ Len(PageRequests) + 1 < MaxRequests
         IN /\ requests' = Append(requests, [type |-> "playlistItems",
                                             params |-> PageParams(playlist_id, next_page_token)])
            /\ responses' = Append(responses, net)
            /\ video_ids' = b.ids
            /\ next_page_token' = IF retry THEN next_page_token ELSE b.tok
            /\ exc' = IF retry THEN exc ELSE b.exc
            /\ IF retry THEN pc' = "loop" /\ ret' = ret
               ELSE IF b.exc # NoExc
               THEN pc' = "raised" /\ ret' = ret
               ELSE IF LoopDone(b.tok)
                    THEN pc' = "returned" /\ ret' = b.ids
                    ELSE pc' = "loop" /\ ret' = ret
    /\ UNCHANGED <<id, playlist_id, spawns, again, main>>

\* mutant: the loop gives up after a fixed number of pages
LoopIterationCapped ==
    /\ pc = "loop"
    /\ Len(PageRequests) < MaxRequests
    /\ \E net \in NetOutcomes(PageDocs) :
         LET b == LoopBody(playlist_id, video_ids, next_page_token, net)
             capped == Len(PageRequests) + 1 >= 3
         IN /\ requests' = Append(requests, [type |-> "playlistItems",
                                             params |-> PageParams(playlist_id, next_page_token)])
            /\ responses' = Append(responses, net)
            /\ video_ids' = b.ids
            /\ next_page_token' = b.tok
            /\ exc' = b.exc
            /\ IF b.exc # NoExc
               THEN pc' = "raised" /\ ret' = ret
               ELSE IF LoopDone(b.tok) \/ capped
                    THEN pc' = "returned" /\ ret' = b.ids
                    ELSE pc' = "loop" /\ ret' = ret
    /\ UNCHANGED <<id, playlist_id, spawns, again, main>>

\* lines 122-145: one iteration of the loop and, when it breaks, the return
LoopIteration ==
    /\ pc = "loop"
    /\ Len(PageRequests) < MaxRequests
    /\ \E net \in NetOutcomes(PageDocs) :
         LET b == LoopBody(playlist_id, video_ids, next_page_token, net)
         IN /\ requests' = Append(requests, [type |-> "playlistItems",
                                             params |-> PageParams(playlist_id, next_page_token)])
            /\ responses' = Append(responses, net)
            /\ video_ids' = b.ids
            /\ next_page_token' = b.tok
            /\ exc' = b.exc
            /\ IF b.exc # NoExc
               THEN pc' = "raised" /\ ret' = ret
               ELSE IF LoopDone(b.tok)
                    THEN pc' = "returned" /\ ret' = b.ids
                    ELSE pc' = "loop" /\ ret' = ret
    /\ UNCHANGED <<id, playlist_id, spawns, again, main>>

\* ---------------------------------------------------------- a second call
\* get_video_ids(channel_url) is called again once the first call has ended;
\* the tool and the API answer as they did the first time, in the same order.
FirstEnded == pc \in {"returned", "raised"}

\* line 114
AgainGetChannelId ==
    /\ FirstEnded
    /\ again.pc = "get_channel_id"
    /\ LET r == get_channel_id(channel_url, spawns[1].outcome)
       IN again' = IF r.ok
                   THEN [again EXCEPT !.pc = "get_upload_playlist_id", !.id = r.val]
                   ELSE [again EXCEPT !.pc = "raised", !.exc = r.exc]
    /\ UNCHANGED <<pc, id, playlist_id, video_ids, next_page_token, ret, exc,
                   spawns, requests, responses, main>>

\* lines 115-117
AgainGetUploadPlaylistId ==
    /\ FirstEnded
    /\ again.pc = "get_upload_playlist_id"
    /\ again.asked < Len(responses)
    /\ LET r == get_upload_playlist_id(again.id, responses[again.asked + 1])
       IN again' = IF r.ok
                   THEN [again EXCEPT !.pc = "loop", !.playlist_id = r.val,
                                      !.video_ids = NewList(video_ids),
                                      !.next_page_token = None,
                                      !.asked = @ + 1]
                   ELSE [again EXCEPT !.pc = "raised", !.exc = r.exc, !.asked = @ + 1]
    /\ UNCHANGED <<pc, id, playlist_id, video_ids, next_page_token, ret, exc,
                   spawns, requests, responses, main>>

\* lines 122-145
AgainLoopIteration ==
    /\ FirstEnded
    /\ again.pc = "loop"
    /\ again.asked < Len(responses)
    /\ LET b == LoopBody(again.playlist_id, again.video_ids, again.next_page_token,
                         responses[again.asked + 1])
       IN again' = [again EXCEPT
                      !.video_ids = b.ids,
                      !.next_page_token = b.tok,
                      !.exc = b.exc,
                      !.asked = @ + 1,
                      !.pc = IF b.exc # NoExc THEN "raised"
                             ELSE IF LoopDone(b.tok) THEN "returned" ELSE "loop",
                      !.ret = IF b.exc = NoExc /\ LoopDone(b.tok) THEN b.ids ELSE @]
    /\ UNCHANGED <<pc, id, playlist_id, video_ids, next_page_token, ret, exc,
                   spawns, requests, responses, main>>

Again == AgainGetChannelId \/ AgainGetUploadPlaylistId \/ AgainLoopIteration

\* ------------------------------------------------ main and get_transcript
\* what ytt_api.fetch(video_id=id, languages=["en"]) may do
FetchOutcomes == {"fetched", "raise"}

\* main.py lines 6-7: vid_list = videos.get_video_ids(channel_url), then the
\* call of get_transcript(vid_list); an exception of get_video_ids leaves main
MainGetVideoIds ==
    /\ main.pc = "get_video_ids"
    /\ FirstEnded
    /\ main' = IF pc = "returned"
               THEN [main EXCEPT !.pc = "get_transcript", !.vid_list = ret]
               ELSE [main EXCEPT !.pc = "raised", !.exc = exc]
    /\ UNCHANGED <<pc, id, playlist_id, video_ids, next_page_token, ret, exc,
                   spawns, requests, responses, again>>

\* mutant: a failure of the provider is swallowed and the loop goes on
GetTranscriptFetchSwallow ==
    /\ main.pc = "get_transcript"
    /\ Len(main.fetches) < Len(main.vid_list)
    /\ \E o \in FetchOutcomes :
         main' = [main EXCEPT
                    !.fetches = Append(@, [video_id |-> main.vid_list[Len(main.fetches) + 1],
                                           languages |-> <<"en">>,
                                           outcome |-> o])]
    /\ UNCHANGED <<pc, id, playlist_id, video_ids, next_page_token, ret, exc,
                   spawns, requests, responses, again>>

\* transcripts.py lines 6-7: one iteration of `for id in video_ids`
GetTranscriptFetch ==
    /\ main.pc = "get_transcript"
    /\ Len(main.fetches) < Len(main.vid_list)
    /\ \E o \in FetchOutcomes :
         main' = [main EXCEPT
                    !.fetches = Append(@, [video_id |-> main.vid_list[Len(main.fetches) + 1],
                                           languages |-> <<"en">>,
                                           outcome |-> o]),
                    !.pc = IF o = "raise" THEN "raised" ELSE @,
                    !.exc = IF o = "raise" THEN Exc("TranscriptError", <<>>) ELSE @]
    /\ UNCHANGED <<pc, id, playlist_id, video_ids, next_page_token, ret, exc,
                   spawns, requests, responses, again>>

\* transcripts.py line 8: the loop is exhausted, print("Done")
GetTranscriptDone ==
    /\ main.pc = "get_transcript"
    /\ Len(main.fetches) = Len(main.vid_list)
    /\ main' = [main EXCEPT !.pc = "done", !.done = TRUE]
    /\ UNCHANGED <<pc, id, playlist_id, video_ids, next_page_token, ret, exc,
                   spawns, requests, responses, again>>

Main == MainGetVideoIds \/ GetTranscriptFetch \/ GetTranscriptDone

Next == GetChannelId \/ GetUploadPlaylistId \/ LoopIteration

Spec == Init /\ [][Next]_vars

\* The interpreter keeps running the function until it returns or raises.
LiveSpec == Spec /\ WF_vars(Next)

\* two calls, one after the other
TwiceSpec == Init /\ [][Next \/ Again]_vars

\* main(): get_video_ids, then get_transcript on what it returned
MainSpec == Init /\ [][Next \/ Main]_vars

\* ------------------------------------------------- reading the run's history
\* positions in `requests` of the playlistItems requests
PageIdx == {i \in 1..Len(requests) : requests[i].type = "playlistItems"}
NPages == Cardinality(PageIdx)
\* the k-th playlistItems request and what it met (requests[1] is "playlists")
PageReq(k) == requests[k + 1]
PageResp(k) == responses[k + 1]

IsJson(net) == net.o = "response" /\ net.status = 200 /\ net.parses
HasKey(v, k) == v.t = "dict" /\ k \in DOMAIN v.m
HasVideoId(e) == HasKey(e, "contentDetails") /\ HasKey(e.m.contentDetails, "videoId")
HasItemList(d) == HasKey(d, "items") /\ d.m.items.t = "list"
\* a page as the API documents it: a list of entries that each carry
\* contentDetails.videoId, and a nextPageToken that, if there, is a string
WellFormedPage(net) ==
    /\ IsJson(net)
    /\ HasItemList(net.doc)
    /\ \A j \in 1..Len(net.doc.m.items.a) : HasVideoId(net.doc.m.items.a[j])
    /\ HasKey(net.doc, "nextPageToken") => net.doc.m.nextPageToken.t = "str"
CarriesToken(net) == HasKey(net.doc, "nextPageToken")
PageIds(net) ==
    [j \in 1..Len(net.doc.m.items.a) |-> net.doc.m.items.a[j].m.contentDetails.m.videoId]

RECURSIVE ConcatIds(_)
ConcatIds(k) == IF k = 0 THEN <<>> ELSE ConcatIds(k - 1) \o PageIds(PageResp(k))

\* ---------------------------------------------------------------- claims

\* C1: when every page fetched was well-formed, every page but the last
\* carried a nextPageToken and the last carried none, get_video_ids returns
\* exactly the pages' contentDetails.videoId values, concatenated in page
\* order and, within a page, in item order.
C1_ReturnsConcatenation ==
    (/\ NPages >= 1
     /\ \A k \in 1..NPages : WellFormedPage(PageResp(k))
     /\ \A k \in 1..NPages : CarriesToken(PageResp(k)) <=> k < NPages)
    => /\ pc = "returned"
       /\ ret = ConcatIds(NPages)

C1_Witness ==
    /\ pc = "returned"
    /\ NPages = 2
    /\ WellFormedPage(PageResp(1)) /\ WellFormedPage(PageResp(2))
    /\ CarriesToken(PageResp(1)) /\ ~CarriesToken(PageResp(2))
    /\ Len(PageIds(PageResp(1))) >= 2
    /\ PageIds(PageResp(1))[1] # PageIds(PageResp(1))[2]
    /\ PageIds(PageResp(2)) = <<PageIds(PageResp(1))[1]>>
    /\ ret = PageIds(PageResp(1)) \o PageIds(PageResp(2))

\* C2: every run that ends returns a list or raises ChannelFetchError or
\* YouTubeAPIError; no other error kind reaches the caller.
C2_OnlyTwoErrorKinds ==
    /\ pc = "raised" => exc.kind \in {"ChannelFetchError", "YouTubeAPIError"}
    /\ pc = "returned" => exc = NoExc

\* C3: a playlists response whose `items` is an empty list makes
\* get_upload_playlist_id fail with YouTubeAPIError, the message carrying the
\* decoded document.
EmptyItems(net) == IsJson(net) /\ HasItemList(net.doc) /\ net.doc.m.items.a = <<>>

C3_EmptyItemsIsAPIError ==
    (Len(responses) >= 1 /\ EmptyItems(responses[1]))
    => /\ pc = "raised"
       /\ exc.kind = "YouTubeAPIError"
       /\ exc.msg = <<JStr("Invalid data received:\n "), responses[1].doc>>

\* C4: a playlists response in which items[0] exists but a key on the path
\* contentDetails.relatedPlaylists.uploads is missing makes the run fail with
\* YouTubeAPIError; nothing is returned and no playlistItems request is issued.
MissingOnPath(net) ==
    /\ IsJson(net)
    /\ HasItemList(net.doc)
    /\ Len(net.doc.m.items.a) >= 1
    /\ LET it == net.doc.m.items.a[1]
       IN /\ it.t = "dict"
          /\ \/ ~HasKey(it, "contentDetails")
             \/ /\ it.m.contentDetails.t = "dict"
                /\ \/ ~HasKey(it.m.contentDetails, "relatedPlaylists")
                   \/ /\ it.m.contentDetails.m.relatedPlaylists.t = "dict"
                      /\ ~HasKey(it.m.contentDetails.m.relatedPlaylists, "uploads")

C4_MissingUploadsFails ==
    (Len(responses) >= 1 /\ MissingOnPath(responses[1]))
    => /\ pc = "raised"
       /\ exc.kind = "YouTubeAPIError"
       /\ ret = <<>>
       /\ NPages = 0
       /\ Len(requests) = 1

C4_Witness ==
    /\ Len(responses) = 1
    /\ MissingOnPath(responses[1])
    /\ HasKey(responses[1].doc.m.items.a[1], "contentDetails")
    /\ HasKey(responses[1].doc.m.items.a[1].m.contentDetails, "relatedPlaylists")
    /\ pc = "raised"

\* C5: the first playlistItems request carries no pageToken, and every later
\* one carries a pageToken equal to the nextPageToken of the response just
\* before it, whatever that value is.
SendsPageToken(k) == "pageToken" \in DOMAIN PageReq(k).params

C5_TokenChain ==
    \A k \in 1..NPages :
        IF k = 1 THEN ~SendsPageToken(1)
        ELSE /\ CarriesToken(PageResp(k - 1))
             /\ SendsPageToken(k)
             /\ PageReq(k).params.pageToken = PageResp(k - 1).doc.m.nextPageToken

\* C6 (as claimed): no page token value is sent twice in one run, whatever
\* nextPageToken values the API returns.
C6_NoTokenRepeated ==
    \A i, j \in 1..NPages :
        (i < j /\ SendsPageToken(i) /\ SendsPageToken(j))
        => PageReq(i).params.pageToken # PageReq(j).params.pageToken

\* C6 (amended): the collector detects no cycle; a page token value is sent
\* twice in one run only if the API returned that value as nextPageToken
\* twice, in the responses just before the two requests.
ReturnedToken(k, tk) ==
    /\ k >= 1
    /\ IsJson(PageResp(k))
    /\ CarriesToken(PageResp(k))
    /\ PageResp(k).doc.m.nextPageToken = tk

C6_RepeatOnlyIfReturnedTwice ==
    \A i, j \in 1..NPages :
        (/\ i < j /\ SendsPageToken(i) /\ SendsPageToken(j)
         /\ PageReq(i).params.pageToken = PageReq(j).params.pageToken)
        => /\ ReturnedToken(i - 1, PageReq(i).params.pageToken)
           /\ ReturnedToken(j - 1, PageReq(j).params.pageToken)

C6_Witness ==
    /\ NPages = 4
    /\ SendsPageToken(2) /\ SendsPageToken(3) /\ SendsPageToken(4)
    /\ PageReq(2).params.pageToken # PageReq(3).params.pageToken
    /\ PageReq(2).params.pageToken = PageReq(4).params.pageToken

\* C7: when the tool and every request succeed, every page is well-formed
\* and the chain of nextPageToken ends within the pages the run may fetch,
\* the run eventually returns.
ToolFailed == Len(spawns) >= 1 /\ ~(spawns[1].outcome.o = "exit" /\ spawns[1].outcome.code = 0)

HasUploads(net) ==
    /\ IsJson(net)
    /\ HasItemList(net.doc)
    /\ Len(net.doc.m.items.a) >= 1
    /\ HasKey(net.doc.m.items.a[1], "contentDetails")
    /\ HasKey(net.doc.m.items.a[1].m.contentDetails, "relatedPlaylists")
    /\ HasKey(net.doc.m.items.a[1].m.contentDetails.m.relatedPlaylists, "uploads")

PlaylistsFailed == Len(responses) >= 1 /\ ~HasUploads(responses[1])
SomePageFailed == \E k \in 1..NPages : ~WellFormedPage(PageResp(k))
ChainExceedsBound == NPages = MaxRequests /\ CarriesToken(PageResp(NPages))

C7_Terminates ==
    <>(pc = "returned" \/ ToolFailed \/ PlaylistsFailed \/ SomePageFailed \/ ChainExceedsBound)

C7_Witness ==
    /\ pc = "returned"
    /\ NPages = 3
    /\ \A k \in 1..NPages : WellFormedPage(PageResp(k))
    /\ CarriesToken(PageResp(1)) /\ CarriesToken(PageResp(2)) /\ ~CarriesToken(PageResp(3))

\* C8: after a well-formed page without nextPageToken no further request is
\* issued and the accumulated list is returned; after a well-formed page
\* with a nextPageToken the run does not return before another request.
C8_StopsExactlyAtLastPage ==
    \A k \in 1..NPages :
        WellFormedPage(PageResp(k))
        => IF CarriesToken(PageResp(k))
           THEN k = NPages => pc = "loop"
           ELSE k = NPages /\ pc = "returned" /\ ret = video_ids

C8_Witness ==
    /\ pc = "loop"
    /\ NPages = 1
    /\ WellFormedPage(PageResp(1))
    /\ CarriesToken(PageResp(1))
    /\ ~Truthy(PageResp(1).doc.m.nextPageToken)

\* C9: a playlistItems page that fails at the gateway, or has an entry
\* without contentDetails.videoId, ends the run with YouTubeAPIError: no
\* list is returned, identifiers already accumulated are not delivered, and
\* no further page is requested.
GatewayFails(net) ==
    \/ net.o # "response"
    \/ net.status >= 400 /\ net.status < 600
    \/ ~net.parses

BrokenPage(net) ==
    \/ GatewayFails(net)
    \/ /\ HasItemList(net.doc)
       /\ \E j \in 1..Len(net.doc.m.items.a) : ~HasVideoId(net.doc.m.items.a[j])

C9_AllOrNothing ==
    \A k \in 1..NPages :
        BrokenPage(PageResp(k))
        => /\ k = NPages
           /\ pc = "raised"
           /\ exc.kind = "YouTubeAPIError"
           /\ ret = <<>>

C9_Witness ==
    /\ NPages = 2
    /\ WellFormedPage(PageResp(1))
    /\ ~GatewayFails(PageResp(2))
    /\ BrokenPage(PageResp(2))
    /\ Len(video_ids) > Len(PageIds(PageResp(1)))
    /\ pc = "raised"
    /\ ret = <<>>

\* C10: the stages run in the order channel id, uploads playlist, pages, each
\* only after the one before succeeded: a ChannelFetchError means no API
\* request was issued, a failed playlists lookup means no playlistItems
\* request was issued, and the failing stage's error reaches the caller
\* with its kind and message unchanged.
C10_StagesInOrder ==
    /\ Len(spawns) <= 1
    /\ requests # <<>> => Len(spawns) = 1 /\ ~ToolFailed
    /\ \A i \in 1..Len(requests) : requests[i].type = "playlists" <=> i = 1
    /\ Len(requests) >= 2 => HasUploads(responses[1])
    /\ ToolFailed => /\ pc = "raised"
                     /\ requests = <<>>
                     /\ exc.kind = "ChannelFetchError"
                     /\ exc = get_channel_id(channel_url, spawns[1].outcome).exc
    /\ (pc = "raised" /\ Len(requests) = 1)
       => /\ NPages = 0
          /\ exc = get_upload_playlist_id(id, responses[1]).exc

C10_Witness ==
    /\ pc = "raised"
    /\ Len(requests) = 1
    /\ GatewayFails(responses[1])
    /\ exc.kind = "YouTubeAPIError"

\* C11: no external call is retried: the resolver is spawned at most once,
\* at most one playlists request is issued, each page fetched costs exactly
\* one playlistItems request, and after an external call has failed no
\* further external call is made.
C11_NoRetry ==
    /\ Len(spawns) <= 1
    /\ Cardinality({i \in 1..Len(requests) : requests[i].type = "playlists"}) <= 1
    /\ Len(requests) = Len(responses)
    /\ NPages = Len(requests) - (IF requests = <<>> THEN 0 ELSE 1)
    /\ ToolFailed => requests = <<>> /\ pc = "raised"
    /\ \A i \in 1..Len(responses) :
           GatewayFails(responses[i]) => i = Len(requests) /\ pc = "raised"

C11_Witness ==
    /\ NPages = 2
    /\ ~GatewayFails(PageResp(1))
    /\ GatewayFails(PageResp(2))
    /\ PageResp(2).o = "ReadTimeout"
    /\ pc = "raised"

\* C12: yt_api_req turns each failure cause into YouTubeAPIError with that
\* cause's message: the transport detail for a connection failure, the
\* status code for a non-2xx status, the raw text for an unparseable body,
\* and the fixed too-slow message for every timeout, whether it expires
\* while connecting or while reading.
Contains(msg, v) == \E i \in DOMAIN msg : msg[i] = v
LastResp == responses[Len(responses)]
TimedOut(net) == net.o \in {"ConnectTimeout", "ReadTimeout"}

C12_MessagePerCause ==
    (Len(responses) >= 1 /\ GatewayFails(LastResp))
    => /\ exc.kind = "YouTubeAPIError"
       /\ TimedOut(LastResp)
          => exc.msg = <<JStr("YouTubeAPI took too long to respond")>>
       /\ LastResp.o = "ConnectionError"
          => /\ exc.msg[1] = JStr("Failed to connect to the API. Check details below:\n")
             /\ Contains(exc.msg, JStr(LastResp.detail))
       /\ (LastResp.o = "response" /\ ~(LastResp.status >= 200 /\ LastResp.status < 300))
          => /\ exc.msg[1] = JStr("received bad response code from YouTubeAPI:")
             /\ Contains(exc.msg, JNum(LastResp.status))
       /\ (LastResp.o = "response" /\ LastResp.status >= 200 /\ LastResp.status < 300)
          => /\ exc.msg[1] = JStr("Invalid data received:\n ")
             /\ Contains(exc.msg, JStr(LastResp.text))

\* C13: get_channel_id maps every outcome of the tool to one result: exit
\* status 0 gives the standard output without its leading and trailing
\* whitespace, unvalidated (the empty string included); a non-zero exit
\* gives ChannelFetchError with the URL and the captured error text, or
\* "unknown error" when there is none; a timeout gives ChannelFetchError
\* with the URL and a timeout wording that differs from the other message.
AllSpace(s) == \A i \in 1..Len(s) : IsSpace(SubSeq(s, i, i))

IsTrimOf(r, s) ==
    /\ \E a, b \in 0..Len(s) :
          /\ a + b <= Len(s)
          /\ r = SubSeq(s, a + 1, Len(s) - b)
          /\ AllSpace(SubSeq(s, 1, a))
          /\ AllSpace(SubSeq(s, Len(s) - b + 1, Len(s)))
    /\ r # "" => ~IsSpace(SubSeq(r, 1, 1)) /\ ~IsSpace(SubSeq(r, Len(r), Len(r)))

C13_ChannelIdOutcomes ==
    Len(spawns) = 1
    => LET tool == spawns[1].outcome
       IN CASE tool.o = "exit" /\ tool.code = 0 ->
                 /\ IsTrimOf(id, tool.stdout)
                 /\ pc # "get_channel_id"
                 /\ exc.kind # "ChannelFetchError"
            [] tool.o = "exit" /\ tool.code # 0 ->
                 /\ pc = "raised"
                 /\ exc.kind = "ChannelFetchError"
                 /\ Contains(exc.msg, JStr(channel_url))
                 /\ Contains(exc.msg, JStr(IF tool.stderr # "" THEN tool.stderr
                                           ELSE "unknown error"))
            [] tool.o = "timeout" ->
                 /\ pc = "raised"
                 /\ exc.kind = "ChannelFetchError"
                 /\ Contains(exc.msg, JStr(channel_url))
                 /\ exc.msg[1] = JStr("Timed out while fetching channel ID for the URL: ")
                 /\ exc.msg[1] # JStr("Failed to fetch channel ID for the URL: ")

C13_Witness ==
    /\ Len(spawns) = 1
    /\ spawns[1].outcome.code = 0
    /\ spawns[1].outcome.o = "exit"
    /\ id # spawns[1].outcome.stdout
    /\ id = "UC1"
    /\ pc = "get_upload_playlist_id"

\* C14: on a successful run the returned list is as long as the `items` of
\* all pages fetched taken together, and whenever the run stands between
\* two pages the accumulator is as long as the `items` of the pages read.
RECURSIVE SumItems(_)
SumItems(k) == IF k = 0 THEN 0 ELSE SumItems(k - 1) + Len(PageResp(k).doc.m.items.a)

C14_LengthIsSumOfPages ==
    /\ pc = "returned" => Len(ret) = SumItems(NPages)
    /\ pc \in {"loop", "returned"} => Len(video_ids) = SumItems(NPages)

C14_Witness ==
    /\ pc = "returned"
    /\ NPages = 3
    /\ Len(PageResp(3).doc.m.items.a) = 1
    /\ Len(ret) = 2 * MaxItems + 1

\* C15: a second call of get_video_ids that meets the same tool outcome and
\* the same API responses in the same order ends as the first did: the same
\* list returned or the same error raised, and it needs no response the
\* first call did not need.
C15_SameOutcomeTwice ==
    /\ again.pc \in {"returned", "raised"}
       => /\ again.pc = pc
          /\ again.ret = ret
          /\ again.exc = exc
          /\ again.asked = Len(responses)
    /\ (FirstEnded /\ again.pc \in {"get_upload_playlist_id", "loop"})
       => again.asked < Len(responses)

C15_Witness ==
    /\ pc = "returned"
    /\ again.pc = "returned"
    /\ NPages = 2
    /\ Len(ret) > MaxItems
    /\ again.ret = ret

\* C16: the playlist identifier is resolved once, from items[0] of the one
\* playlists response, and never changes: every playlistItems request
\* carries it, with part=contentDetails, maxResults=50 and the API key, and
\* pageToken is the only parameter in which two requests of a run differ.
FirstUploads == responses[1].doc.m.items.a[1].m.contentDetails.m.relatedPlaylists.m.uploads
FixedParams == {"part", "maxResults", "playlistId", "key"}

C16_SamePlaylistEveryRequest ==
    /\ Cardinality({i \in 1..Len(requests) : requests[i].type = "playlists"}) <= 1
    /\ pc \in {"loop", "returned"} => playlist_id = FirstUploads
    /\ NPages >= 1 => playlist_id = FirstUploads
    /\ \A k \in 1..NPages :
          LET p == PageReq(k).params
          IN /\ FixedParams \subseteq DOMAIN p
             /\ DOMAIN p \subseteq FixedParams \cup {"pageToken"}
             /\ p.playlistId = FirstUploads
             /\ p.part = "contentDetails"
             /\ p.maxResults = 50
             /\ p.key = api_key
             /\ \A f \in FixedParams : p[f] = PageReq(1).params[f]

C16_Witness ==
    /\ NPages = 3
    /\ Len(responses[1].doc.m.items.a) = 2
    /\ SendsPageToken(2) /\ SendsPageToken(3)
    /\ PageReq(2).params.pageToken # PageReq(3).params.pageToken
    /\ PageReq(3).params.playlistId = JStr("UU1")

\* C17: there is no page cap: as long as every page so far was well-formed
\* and carried a nextPageToken the run has neither returned nor raised, and
\* below the bound of the model a further playlistItems request can be
\* issued; so a chain of tokens of any length is followed to its end.
AllPagesCarryToken ==
    /\ NPages >= 1
    /\ \A k \in 1..NPages : WellFormedPage(PageResp(k)) /\ CarriesToken(PageResp(k))

C17_NoPageCap ==
    AllPagesCarryToken
    => /\ pc = "loop"
       /\ Len(requests) = NPages + 1
       /\ NPages < MaxRequests => ENABLED LoopIteration

C17_Witness ==
    /\ AllPagesCarryToken
    /\ NPages = MaxRequests
    /\ pc = "loop"
    /\ \A k \in 1..NPages : Truthy(PageResp(k).doc.m.nextPageToken)

\* C18: in one run at most one playlistItems request is issued without a
\* pageToken parameter, so the first page is fetched and appended once.
NoTokenRequests == {k \in 1..NPages : ~SendsPageToken(k)}

C18_FirstPageOnce == Cardinality(NoTokenRequests) <= 1

\* C19: main calls the transcript provider only after get_video_ids has
\* returned, and never if it raised; get_transcript calls it once per element
\* of the returned list, in order, for English; a failure of the provider is
\* the last call made, and "Done" is reached only after every element was
\* fetched.
C19_TranscriptsAfterList ==
    /\ main.pc # "get_video_ids" => FirstEnded
    /\ main.fetches # <<>> => pc = "returned"
    /\ pc = "raised" => main.fetches = <<>> /\ ~main.done /\ main.pc \in {"get_video_ids", "raised"}
    /\ Len(main.fetches) <= Len(ret)
    /\ \A i \in 1..Len(main.fetches) :
          /\ main.fetches[i].video_id = ret[i]
          /\ main.fetches[i].languages = <<"en">>
          /\ main.fetches[i].outcome = "raise" => i = Len(main.fetches) /\ main.pc = "raised"
    /\ main.done => /\ pc = "returned"
                    /\ Len(main.fetches) = Len(ret)
                    /\ \A i \in 1..Len(main.fetches) : main.fetches[i].outcome = "fetched"

C19_Witness ==
    /\ main.pc = "raised"
    /\ pc = "returned"
    /\ NPages = 2
    /\ Len(ret) >= 3
    /\ Len(main.fetches) = 2
    /\ main.fetches[1].outcome = "fetched"
    /\ main.fetches[2].outcome = "raise"

====
